---- MODULE Spec2Model ----
(***************************************************************************)
(* Model of the Dracula High Contrast theme generator:                     *)
(*   scripts/generate.js  - load the YAML palette, sanitize it, derive the *)
(*                          soft and the high-contrast variant;            *)
(*   scripts/build.js     - write the three themes as JSON files.          *)
(* JavaScript objects and arrays live in a heap of cells, so that sharing  *)
(* between a theme and its derived variants is visible.  Keys and colours  *)
(* are the real strings; colour strings are parsed and formatted digit by  *)
(* digit as tinycolor does.                                                *)
(***************************************************************************)
EXTENDS Integers, Sequences, FiniteSets, TLC

VARIABLES
  pc,         \* position in generate() / build()
  yamlFile,   \* the content of src/dracula.yml, as a parsed document or malformed
  heap,       \* address -> cell (object, array or free)
  next,       \* next free heap address
  base,       \* address of the loaded theme (0: none)
  soft,       \* address of the soft theme (0: none)
  hc,         \* address of the high-contrast theme (0: none)
  sanitized,  \* history: the base theme, by value, right after sanitation
  fp,         \* how this run's double arithmetic resolves exact ties
  wstate,     \* per output file: the state of its writeFile call
  files,      \* per output file: what the path holds on disk
  result      \* the promise build() returns

vars == <<pc, yamlFile, heap, next, base, soft, hc, sanitized, fp, wstate, files, result>>

(***************************************************************************)
(* Bounds of the model.                                                    *)
(***************************************************************************)
MaxKeys == 2
MaxRules == 1

(***************************************************************************)
(* JavaScript values and heap cells.                                       *)
(***************************************************************************)
Str(s) == [t |-> "str", s |-> s]
Null == [t |-> "null"]
Ref(a) == [t |-> "ref", a |-> a]
Obj(p) == [t |-> "obj", p |-> p]
Arr(i) == [t |-> "arr", i |-> i]
Free == [t |-> "free"]
NoTheme == [t |-> "none"]

\* the cells a cell refers to
Children(c) ==
  IF c.t = "obj" THEN {c.p[k].a : k \in {x \in DOMAIN c.p : c.p[x].t = "ref"}}
  ELSE IF c.t = "arr" THEN {c.i[j].a : j \in {x \in 1..Len(c.i) : c.i[x].t = "ref"}}
  ELSE {}

RECURSIVE Reach(_, _)
Reach(h, a) == {a} \cup UNION {Reach(h, b) : b \in Children(h[a])}

\* a value with every reference replaced by what it refers to
RECURSIVE Deep(_, _)
Deep(h, v) ==
  IF v.t # "ref" THEN v
  ELSE LET c == h[v.a] IN
       IF c.t = "obj" THEN Obj([k \in DOMAIN c.p |-> Deep(h, c.p[k])])
       ELSE IF c.t = "arr" THEN Arr([j \in 1..Len(c.i) |-> Deep(h, c.i[j])])
       ELSE c

Strs(seq) == [j \in 1..Len(seq) |-> Str(seq[j])]

(***************************************************************************)
(* The YAML document (js-yaml load with the !alpha tag).                   *)
(***************************************************************************)
YStr(s) == [tag |-> "str", hex |-> s, alpha |-> ""]
YNull == [tag |-> "null", hex |-> "", alpha |-> ""]
YAlpha(hexRGB, alpha) == [tag |-> "alpha", hex |-> hexRGB, alpha |-> alpha]

\* withAlphaType.construct: ([hexRGB, alpha]) => hexRGB + alpha
withAlphaType(hexRGB, alpha) == hexRGB \o alpha

construct(y) ==
  IF y.tag = "null" THEN Null
  ELSE IF y.tag = "alpha" THEN Str(withAlphaType(y.hex, y.alpha))
  ELSE Str(y.hex)

\* the cells a parsed theme occupies: 8 and 3 for each token rule
BlockSize(doc) == 8 + 3 * Len(doc.tokenColors)

HeapSize == 3 * (8 + 3 * MaxRules) + 1
Addr == 1..HeapSize

RuleProps(rule, r) ==
  LET must == ("scope" :> Ref(r + 1)) @@ ("settings" :> Ref(r + 2))
  IN IF rule.name = <<>> THEN must ELSE ("name" :> Str(rule.name[1])) @@ must

\* load(yamlFile, { schema }): the theme as cells a0 .. a0 + BlockSize - 1
LoadCell(doc, a0, a) ==
  LET o == a - a0
      j == ((o - 8) \div 3) + 1
      part == (o - 8) % 3
  IN IF o = 0 THEN Obj(("dracula" :> Ref(a0 + 1)) @@ ("colors" :> Ref(a0 + 6))
                       @@ ("tokenColors" :> Ref(a0 + 7)))
     ELSE IF o = 1 THEN Obj(("base" :> Ref(a0 + 2)) @@ ("ansi" :> Ref(a0 + 3))
                            @@ ("brightOther" :> Ref(a0 + 4)) @@ ("other" :> Ref(a0 + 5)))
     ELSE IF o = 2 THEN Arr(Strs(doc.dracula.base))
     ELSE IF o = 3 THEN Arr(Strs(doc.dracula.ansi))
     ELSE IF o = 4 THEN Arr(Strs(doc.dracula.brightOther))
     ELSE IF o = 5 THEN Arr(Strs(doc.dracula.other))
     ELSE IF o = 6 THEN Obj([k \in DOMAIN doc.colors |-> construct(doc.colors[k])])
     ELSE IF o = 7 THEN Arr([i \in 1..Len(doc.tokenColors) |-> Ref(a0 + 8 + 3 * (i - 1))])
     ELSE IF part = 0 THEN Obj(RuleProps(doc.tokenColors[j], a))
     ELSE IF part = 1 THEN Arr(Strs(doc.tokenColors[j].scope))
     ELSE Obj([k \in DOMAIN doc.tokenColors[j].settings |->
                 Str(doc.tokenColors[j].settings[k])])

load(h, doc, a0) ==
  [a \in Addr |-> IF a >= a0 /\ a < a0 + BlockSize(doc) THEN LoadCell(doc, a0, a) ELSE h[a]]

(***************************************************************************)
(* Reading a theme in the heap.                                            *)
(***************************************************************************)
ColorsAddr(h, theme) == h[theme].p["colors"].a
Colors(h, theme) == h[ColorsAddr(h, theme)].p
TokensAddr(h, theme) == h[theme].p["tokenColors"].a
Rules(h, theme) == h[TokensAddr(h, theme)].i
SettingsAddr(h, rule) == h[rule.a].p["settings"].a
Group(h, theme, g) == h[h[h[theme].p["dracula"].a].p[g].a].i

(***************************************************************************)
(* JSON.parse(JSON.stringify(theme)).                                      *)
(***************************************************************************)
\* a string or null is written and read back as itself
JsonScalar(v) == IF v.t = "str" THEN Str(v.s) ELSE Null

JsonValue(v, delta) == IF v.t = "ref" THEN Ref(v.a + delta) ELSE JsonScalar(v)

JsonCell(c, delta) ==
  IF c.t = "obj" THEN Obj([k \in DOMAIN c.p |-> JsonValue(c.p[k], delta)])
  ELSE IF c.t = "arr" THEN Arr([j \in 1..Len(c.i) |-> JsonValue(c.i[j], delta)])
  ELSE c

\* every cell reachable from theme is built anew, in the free block starting at `at`;
\* JsonCopyShared is { ...theme }: a new top object over the same cells
JsonCopyShared(h, theme, at) ==
  [a \in Addr |-> IF a = at THEN h[theme] ELSE h[a]]

JsonCopy(h, theme, at) ==
  LET delta == at - theme
      from == Reach(h, theme)
  IN [a \in Addr |-> IF (a - delta) \in from THEN JsonCell(h[a - delta], delta) ELSE h[a]]

(***************************************************************************)
(* tinycolor(value).desaturate(20).toHexString()                           *)
(*                                                                         *)
(* tinycolor computes in doubles; the model computes in exact integers.    *)
(* Where the exact value sits on a boundary (a channel at n + 1/2, or a    *)
(* percentage that is a whole multiple of 0.01) the double may fall on     *)
(* either side, so fp says how the run resolves each such case.            *)
(***************************************************************************)
HexLower == "0123456789abcdef"
HexUpper == "0123456789ABCDEF"
Char(s, i) == SubSeq(s, i, i)
IsHexChar(c) == \E n \in 1..16 : Char(HexLower, n) = c \/ Char(HexUpper, n) = c
HexVal(c) == (CHOOSE n \in 1..16 : Char(HexLower, n) = c \/ Char(HexUpper, n) = c) - 1
parseIntFromHex(s) == 16 * HexVal(Char(s, 1)) + HexVal(Char(s, 2))

\* matchers.hex6: "#RRGGBB", digits of either case
IsHex6(s) == Len(s) = 7 /\ Char(s, 1) = "#" /\ \A i \in 2..7 : IsHexChar(Char(s, i))
stringInputToObject(s) ==
  <<parseIntFromHex(SubSeq(s, 2, 3)), parseIntFromHex(SubSeq(s, 4, 5)),
    parseIntFromHex(SubSeq(s, 6, 7))>>

\* pad2(Math.round(c).toString(16)), three times, after "#"
pad2(n) == Char(HexLower, (n \div 16) + 1) \o Char(HexLower, (n % 16) + 1)
toHexString(rgb) == "#" \o pad2(rgb[1]) \o pad2(rgb[2]) \o pad2(rgb[3])

Max2(a, b) == IF a >= b THEN a ELSE b
Min2(a, b) == IF a <= b THEN a ELSE b
Max3(rgb) == Max2(rgb[1], Max2(rgb[2], rgb[3]))
Min3(rgb) == Min2(rgb[1], Min2(rgb[2], rgb[3]))

\* the denominator of the HSL saturation, times 255: max + min, or 510 - (max + min)
SatDen(rgb) ==
  LET sm == Max3(rgb) + Min3(rgb) IN IF sm > 255 THEN 510 - sm ELSE sm

\* bound01(l * 100 + "%", 100): the lightness in units of 0.0001, cut not rounded
LightnessUnits(rgb, f) ==
  LET n == 10000 * (Max3(rgb) + Min3(rgb))
      L == n \div 510
  IN IF n % 510 = 0 /\ L > 0 /\ L < 10000 /\ f.l = 0 THEN L - 1 ELSE L

\* clamp01(hsl.s - amount / 100), then bound01(s * 100 + "%", 100), in units of 0.0001
SaturationUnits(rgb, amount, f) ==
  LET d == Max3(rgb) - Min3(rgb)
      den == SatDen(rgb)
      n == 10000 * d - 100 * amount * den
  IN IF d = 0 \/ n <= 0 THEN 0
     ELSE LET S == Min2(n \div den, 10000)
          IN IF n % den = 0 /\ S > 0 /\ S < 10000 /\ f.s = 0 THEN S - 1 ELSE S

\* Math.round(x) for x = num / den given as X = (2 num + den) \div 10000 and the
\* divisor 2 den / 10000; an exact half goes up unless the run's doubles fall short
RoundHalf(X, exact, divisor, tie) ==
  IF exact /\ X % divisor = 0 /\ tie = 0 THEN (X \div divisor) - 1 ELSE X \div divisor

\* hslToRgb(h, s, l) * 255, rounded: channel c of the input lies (c - min) / d of the
\* way from p to q, and so does the output channel
Channel(rgb, c, L, S, tie) ==
  LET d == Max3(rgb) - Min3(rgb)
      k == c - Min3(rgb)
      Q == IF L < 5000 THEN L * (10000 + S) ELSE L * 10000 + S * 10000 - L * S
      P == 2 * L * 10000 - Q
      W == Q - P
      lo == (P % 10000) * d + (W % 10000) * k
      Th == (P \div 10000) * d + (W \div 10000) * k + (lo \div 10000)
      Tl == lo % 10000
  IN IF S = 0
     THEN RoundHalf(510 * L + 10000, TRUE, 20000, tie)
     ELSE RoundHalf(510 * Th + 10000 * d + (510 * Tl) \div 10000,
                    (510 * Tl) % 10000 = 0, 20000 * d, tie)

\* tinycolor.desaturate(amount); desaturateHalf takes half the amount away
desaturateHalf(rgb, amount, f) ==
  LET L == LightnessUnits(rgb, f)
      S == SaturationUnits(rgb, amount \div 2, f)
  IN <<Channel(rgb, rgb[1], L, S, f.r), Channel(rgb, rgb[2], L, S, f.g),
       Channel(rgb, rgb[3], L, S, f.b)>>

desaturate(rgb, amount, f) ==
  LET L == LightnessUnits(rgb, f)
      S == SaturationUnits(rgb, amount, f)
  IN <<Channel(rgb, rgb[1], L, S, f.r), Channel(rgb, rgb[2], L, S, f.g),
       Channel(rgb, rgb[3], L, S, f.b)>>

\* tinycolor(value).desaturate(20).toHexString()
desaturated(value, f) == toHexString(desaturate(stringInputToObject(value), 20, f))

\* Array.prototype.includes; arrayIncludesPrefix takes a value that starts with a member
arrayIncludesPrefix(seq, v) ==
  \E j \in 1..Len(seq) :
    v.t = "str" /\ seq[j].t = "str" /\ Len(v.s) >= Len(seq[j].s)
      /\ SubSeq(v.s, 1, Len(seq[j].s)) = seq[j].s

arrayIncludes(seq, v) == \E j \in 1..Len(seq) : seq[j] = v

(***************************************************************************)
(* transformSoft                                                           *)
(***************************************************************************)
brightColors(h, theme) == Group(h, theme, "ansi") \o Group(h, theme, "brightOther")

SoftValue(bright, v, f) ==
  IF arrayIncludes(bright, v) THEN Str(desaturated(v.s, f)) ELSE v

SoftSettings(bright, c, f) ==
  IF "foreground" \in DOMAIN c.p /\ arrayIncludes(bright, c.p["foreground"])
  THEN Obj([c.p EXCEPT !["foreground"] = Str(desaturated(c.p["foreground"].s, f))])
  ELSE c

\* the theme at `at` and its cells; soft.tokenColors.map(...) builds one more array
transformSoft(h, theme, at, f) ==
  LET h1 == JsonCopy(h, theme, at)
      bright == brightColors(h1, at)
      ca == ColorsAddr(h1, at)
      rules == Rules(h1, at)
      settings == {SettingsAddr(h1, rules[j]) : j \in 1..Len(rules)}
      mapped == at + Cardinality(Reach(h, theme))
  IN [a \in Addr |->
        IF a = ca THEN Obj([k \in DOMAIN h1[ca].p |-> SoftValue(bright, h1[ca].p[k], f)])
        ELSE IF a \in settings THEN SoftSettings(bright, h1[a], f)
        ELSE IF a = at THEN Obj([h1[at].p EXCEPT !["tokenColors"] = Ref(mapped)])
        ELSE IF a = mapped THEN Arr(rules)
        ELSE h1[a]]

(***************************************************************************)
(* transformHighContrast                                                   *)
(***************************************************************************)
endsWith(s, suffix) ==
  Len(s) >= Len(suffix) /\ SubSeq(s, Len(s) - Len(suffix) + 1, Len(s)) = suffix

stringIncludes(s, sub) ==
  \E i \in 1..(Len(s) - Len(sub) + 1) : SubSeq(s, i, i + Len(sub) - 1) = sub

bgKeys ==
  <<
    "activityBar.background", "breadcrumb.background", "debugToolBar.background",
    "editor.background", "editorGutter.background", "editorGroup.background",
    "editorGroupHeader.tabsBackground", "editorGroupHeader.noTabsBackground", "editorHoverWidget.background",
    "editorMarkerNavigation.background", "editorSuggestWidget.background", "editorWidget.background",
    "input.background", "list.activeSelectionBackground", "list.dropBackground",
    "list.focusBackground", "list.hoverBackground", "list.inactiveSelectionBackground",
    "menu.background", "panel.background", "peekViewEditor.background",
    "peekViewResult.background", "peekViewTitle.background", "pickerGroup.border",
    "quickInput.background", "scrollbarSlider.background", "scrollbarSlider.hoverBackground",
    "scrollbarSlider.activeBackground", "settings.checkboxBackground", "settings.dropdownBackground",
    "settings.numberInputBackground", "settings.textInputBackground", "sideBar.background",
    "sideBarSectionHeader.background", "statusBar.background", "statusBar.noFolderBackground",
    "statusBar.debuggingBackground", "tab.activeBackground", "tab.inactiveBackground",
    "tab.unfocusedActiveBackground", "terminal.background", "titleBar.activeBackground",
    "titleBar.inactiveBackground", "walkThrough.embeddedEditorBackground", "welcomePage.background",
    "window.activeBorder"
  >>

exemptions ==
  <<"selection", "Selection", "button", "Badge", "diffEditor", "merge", "highlight",
    "OverviewRuler">>

overrides ==
  <<
    <<"focusBorder", "#FFFFFF">>, <<"contrastBorder", "#FFFFFF">>,
    <<"contrastActiveBorder", "#FF79C6">>, <<"editor.background", "#000000">>,
    <<"editor.foreground", "#FFFFFF">>, <<"foreground", "#FFFFFF">>,
    <<"descriptionForeground", "#FFFFFF">>, <<"errorForeground", "#FF5555">>,
    <<"editor.selectionBackground", "#FFFFFF">>, <<"editor.selectionForeground", "#000000">>,
    <<"selection.background", "#000099">>, <<"widget.shadow", "#000000">>,
    <<"tab.activeBackground", "#000000">>, <<"tab.activeBorder", "#FF79C6">>,
    <<"tab.activeForeground", "#FFFFFF">>, <<"tab.border", "#FFFFFF">>,
    <<"tab.inactiveBackground", "#000000">>, <<"tab.inactiveForeground", "#FFFFFF">>,
    <<"sideBar.background", "#000000">>, <<"sideBar.border", "#FFFFFF">>,
    <<"sideBarTitle.foreground", "#FFFFFF">>, <<"activityBar.background", "#000000">>,
    <<"activityBar.border", "#FFFFFF">>, <<"activityBar.foreground", "#FFFFFF">>,
    <<"activityBar.activeBorder", "#FF79C6">>, <<"editorGroup.border", "#FFFFFF">>,
    <<"editorGroupHeader.tabsBackground", "#000000">>, <<"editorGroupHeader.tabsBorder", "#FFFFFF">>,
    <<"panel.background", "#000000">>, <<"panel.border", "#FFFFFF">>,
    <<"panelTitle.activeBorder", "#FF79C6">>, <<"panelTitle.activeForeground", "#FFFFFF">>,
    <<"panelTitle.inactiveForeground", "#FFFFFF">>, <<"titleBar.activeBackground", "#000000">>,
    <<"titleBar.activeForeground", "#FFFFFF">>, <<"titleBar.inactiveBackground", "#000000">>,
    <<"titleBar.inactiveForeground", "#FFFFFF">>, <<"titleBar.border", "#FFFFFF">>,
    <<"statusBar.background", "#000000">>, <<"statusBar.border", "#FFFFFF">>,
    <<"statusBar.foreground", "#FFFFFF">>, <<"statusBar.debuggingBackground", "#000000">>,
    <<"statusBar.debuggingBorder", "#FF5555">>, <<"terminal.background", "#000000">>,
    <<"terminal.border", "#FFFFFF">>, <<"breadcrumb.background", "#000000">>,
    <<"breadcrumb.foreground", "#FFFFFF">>, <<"breadcrumbPicker.background", "#000000">>,
    <<"sideBarSectionHeader.background", "#000000">>, <<"sideBarSectionHeader.foreground", "#FFFFFF">>,
    <<"sideBarSectionHeader.border", "#FFFFFF">>, <<"button.background", "#000000">>,
    <<"button.foreground", "#FFFFFF">>, <<"button.border", "#FFFFFF">>,
    <<"button.separator", "#FFFFFF">>, <<"button.hoverBackground", "#44475A">>,
    <<"button.secondaryBackground", "#000000">>, <<"button.secondaryForeground", "#FFFFFF">>,
    <<"button.secondaryHoverBackground", "#44475A">>, <<"dropdown.background", "#000000">>,
    <<"dropdown.border", "#FFFFFF">>, <<"dropdown.foreground", "#FFFFFF">>,
    <<"quickInput.background", "#000000">>, <<"pickerGroup.border", "#FFFFFF">>,
    <<"pickerGroup.foreground", "#FFFFFF">>, <<"editorWidget.background", "#000000">>,
    <<"editorWidget.border", "#FFFFFF">>, <<"editorWidget.foreground", "#FFFFFF">>,
    <<"editorSuggestWidget.background", "#000000">>, <<"editorSuggestWidget.border", "#FFFFFF">>,
    <<"editorSuggestWidget.foreground", "#FFFFFF">>, <<"editorHoverWidget.background", "#000000">>,
    <<"editorHoverWidget.border", "#FFFFFF">>, <<"editorHoverWidget.foreground", "#FFFFFF">>,
    <<"debugToolBar.background", "#000000">>, <<"debugToolBar.border", "#FFFFFF">>,
    <<"notificationCenter.border", "#FFFFFF">>, <<"notificationCenterHeader.background", "#000000">>,
    <<"notificationCenterHeader.foreground", "#FFFFFF">>, <<"notificationToast.border", "#FFFFFF">>,
    <<"notifications.background", "#000000">>, <<"notifications.foreground", "#FFFFFF">>,
    <<"notifications.border", "#FFFFFF">>, <<"menu.background", "#000000">>,
    <<"menu.foreground", "#FFFFFF">>, <<"menu.selectionBackground", "#FFFFFF">>,
    <<"menu.selectionForeground", "#000000">>, <<"menu.border", "#FFFFFF">>,
    <<"menu.separatorBackground", "#FFFFFF">>, <<"peekView.border", "#FFFFFF">>,
    <<"peekViewEditor.background", "#000000">>, <<"peekViewEditor.matchHighlightBackground", "#FFFFFF">>,
    <<"peekViewResult.background", "#000000">>, <<"peekViewResult.fileForeground", "#FFFFFF">>,
    <<"peekViewResult.lineForeground", "#FFFFFF">>, <<"peekViewResult.matchHighlightBackground", "#FFFFFF">>,
    <<"peekViewResult.selectionBackground", "#FFFFFF">>, <<"peekViewResult.selectionForeground", "#000000">>,
    <<"peekViewTitle.background", "#000000">>, <<"peekViewTitleDescription.foreground", "#FFFFFF">>,
    <<"peekViewTitleLabel.foreground", "#FFFFFF">>, <<"settings.checkboxBackground", "#000000">>,
    <<"settings.checkboxForeground", "#FFFFFF">>, <<"settings.checkboxBorder", "#FFFFFF">>,
    <<"settings.dropdownBackground", "#000000">>, <<"settings.dropdownForeground", "#FFFFFF">>,
    <<"settings.dropdownBorder", "#FFFFFF">>, <<"settings.headerForeground", "#FFFFFF">>,
    <<"settings.modifiedItemIndicator", "#FF79C6">>, <<"settings.numberInputBackground", "#000000">>,
    <<"settings.numberInputForeground", "#FFFFFF">>, <<"settings.numberInputBorder", "#FFFFFF">>,
    <<"settings.textInputBackground", "#000000">>, <<"settings.textInputForeground", "#FFFFFF">>,
    <<"settings.textInputBorder", "#FFFFFF">>, <<"activityBarBadge.background", "#000000">>,
    <<"activityBarBadge.foreground", "#FFFFFF">>, <<"badge.background", "#000000">>,
    <<"badge.foreground", "#FFFFFF">>, <<"scrollbarSlider.background", "#FFFFFF60">>,
    <<"scrollbarSlider.activeBackground", "#FFFFFF">>, <<"scrollbarSlider.hoverBackground", "#FFFFFF">>,
    <<"input.background", "#000000">>, <<"input.foreground", "#FFFFFF">>,
    <<"input.border", "#FFFFFF">>, <<"diffEditor.insertedTextBackground", "#003500">>,
    <<"diffEditor.insertedTextBorder", "#50FA7B">>, <<"diffEditor.removedTextBackground", "#350000">>,
    <<"diffEditor.removedTextBorder", "#FF5555">>, <<"merge.currentHeaderBackground", "#000000">>,
    <<"merge.currentContentBackground", "#000000">>, <<"merge.incomingHeaderBackground", "#000000">>,
    <<"merge.incomingContentBackground", "#000000">>, <<"merge.border", "#FFFFFF">>,
    <<"merge.commonHeaderBackground", "#000000">>, <<"merge.commonContentBackground", "#000000">>,
    <<"list.activeSelectionBackground", "#000000">>, <<"list.activeSelectionForeground", "#FFFFFF">>,
    <<"list.focusOutline", "#FF79C6">>, <<"list.hoverBackground", "#000000">>,
    <<"list.hoverForeground", "#FFFFFF">>, <<"textPreformat.foreground", "#FFFFFF">>,
    <<"textPreformat.background", "#282A36">>, <<"textCodeBlock.background", "#000000">>,
    <<"textLink.foreground", "#8BE9FD">>, <<"textLink.activeForeground", "#8BE9FD">>,
    <<"textBlockQuote.background", "#000000">>, <<"textBlockQuote.border", "#FFFFFF">>,
    <<"textSeparator.foreground", "#FFFFFF">>, <<"keybindingLabel.background", "#000000">>,
    <<"keybindingLabel.foreground", "#FFFFFF">>, <<"keybindingLabel.border", "#FFFFFF">>,
    <<"keybindingLabel.bottomBorder", "#FFFFFF">>
  >>

overrideKeys == {overrides[i][1] : i \in 1..Len(overrides)}

\* an object literal keeps the last value written for a key
overrideTable ==
  [k \in overrideKeys |->
     overrides[CHOOSE i \in 1..Len(overrides) :
                 /\ overrides[i][1] = k
                 /\ \A j \in (i + 1)..Len(overrides) : overrides[j][1] # k][2]]

\* the condition of the sweep's outer if; BackgroundLikeListed knows the list alone
BackgroundLikeListed(key) == \E i \in 1..Len(bgKeys) : bgKeys[i] = key

BackgroundLike(key) ==
  \/ \E i \in 1..Len(bgKeys) : bgKeys[i] = key
  \/ endsWith(key, "background")
  \/ endsWith(key, "Background")

\* one of the `continue` lines applies
Exempted(key) == \E i \in 1..Len(exemptions) : stringIncludes(key, exemptions[i])

\* SweepValueAll has no exemptions
SweepValueAll(key, v) == IF BackgroundLike(key) THEN Str("#000000") ELSE v

SweepValue(key, v) ==
  IF BackgroundLike(key) /\ ~Exempted(key) THEN Str("#000000") ELSE v

\* Object.assign(hc.colors, overrides); ObjectAssignKeep lets a present key win
ObjectAssignKeep(p, table) ==
  [k \in DOMAIN p \cup DOMAIN table |-> IF k \in DOMAIN p THEN p[k] ELSE Str(table[k])]

ObjectAssign(p, table) ==
  [k \in DOMAIN p \cup DOMAIN table |-> IF k \in DOMAIN table THEN Str(table[k]) ELSE p[k]]

transformHighContrast(h, theme, at) ==
  LET h1 == JsonCopy(h, theme, at)
      ca == ColorsAddr(h1, at)
      swept == [k \in DOMAIN h1[ca].p |-> SweepValue(k, h1[ca].p[k])]
  IN [h1 EXCEPT ![ca] = Obj(ObjectAssign(swept, overrideTable))]

(***************************************************************************)
(* generate(): read, load, sanitize, derive soft and hc.                   *)
(***************************************************************************)
\* !base.colors[key]; FalsyNullOnly is a check for null alone
FalsyNullOnly(v) == v.t = "null"

Falsy(v) == v.t = "null" \/ (v.t = "str" /\ v.s = "")

\* for (const key of Object.keys(base.colors)) if (!base.colors[key]) delete ...
sanitize(h, theme) ==
  LET ca == ColorsAddr(h, theme)
      p == h[ca].p
  IN [h EXCEPT ![ca] = Obj([k \in {x \in DOMAIN p : ~Falsy(p[x])} |-> p[k]])]

\* readFile(join(__dirname, '..', 'src', 'dracula.yml'), 'utf-8')
ReadFile ==
  /\ pc = "start"
  /\ \E ok \in BOOLEAN : pc' = IF ok THEN "read" ELSE "failed"
  /\ UNCHANGED <<yamlFile, heap, next, base, soft, hc, sanitized, fp, wstate, files, result>>

\* load(yamlFile, { schema }) throws on a malformed document
Load ==
  /\ pc = "read"
  /\ IF yamlFile.malformed
     THEN /\ pc' = "failed"
          /\ UNCHANGED <<heap, next, base>>
     ELSE /\ heap' = load(heap, yamlFile, next)
          /\ base' = next
          /\ next' = next + BlockSize(yamlFile)
          /\ pc' = "loaded"
  /\ UNCHANGED <<yamlFile, soft, hc, sanitized, fp, wstate, files, result>>

Sanitize ==
  /\ pc = "loaded"
  /\ heap' = sanitize(heap, base)
  /\ sanitized' = Deep(heap', Ref(base))
  /\ pc' = "sanitized"
  /\ UNCHANGED <<yamlFile, next, base, soft, hc, fp, wstate, files, result>>

\* soft: transformSoft(base)
TransformSoft ==
  /\ pc = "sanitized"
  /\ heap' = transformSoft(heap, base, next, fp)
  /\ soft' = next
  /\ next' = next + Cardinality(Reach(heap, base)) + 1
  /\ pc' = "softDone"
  /\ UNCHANGED <<yamlFile, base, hc, sanitized, fp, wstate, files, result>>

\* hc: transformHighContrast(base), and the return of { base, soft, hc }
TransformHighContrast ==
  /\ pc = "softDone"
  /\ heap' = transformHighContrast(heap, base, next)
  /\ hc' = next
  /\ next' = next + Cardinality(Reach(heap, base))
  /\ pc' = "returned"
  /\ UNCHANGED <<yamlFile, base, soft, sanitized, fp, wstate, files, result>>

generate == ReadFile \/ Load \/ Sanitize \/ TransformSoft \/ TransformHighContrast

(***************************************************************************)
(* Inputs.                                                                 *)
(***************************************************************************)
Files == {"dracula.json", "dracula-soft.json", "dracula-hc.json"}

Palette ==
  [base |-> <<"#282A36", "#F8F8F2">>, ansi |-> <<"#21222C", "#FF5555">>,
   brightOther |-> <<"#E9F284">>, other |-> <<"#44475A">>]

KeyUniverse ==
  {"scrollbarSlider.background", "list.inactiveSelectionBackground", "window.activeBorder",
   "editor.findMatchHighlightBackground", "minimap.background", "button.hoverBackground",
   "terminal.ansiRed"}

ValueUniverse ==
  {YNull, YStr(""), YStr("#FF5555"), YStr("#ff5555"), YAlpha("#E9F284", "80")}

ColorMaps ==
  UNION {[S -> ValueUniverse] : S \in {T \in SUBSET KeyUniverse : Cardinality(T) <= MaxKeys}}

RuleUniverse ==
  <<[name |-> <<"Comment">>, scope |-> <<"comment">>,
     settings |-> ("foreground" :> "#FF5555") @@ ("fontStyle" :> "italic")],
    [name |-> <<>>, scope |-> <<"string", "constant">>,
     settings |-> ("foreground" :> "#ff5555") @@ ("background" :> "#FF5555")],
    [name |-> <<"Bold">>, scope |-> <<"markup.bold">>,
     settings |-> ("fontStyle" :> "bold")]>>

\* up to MaxRules rules, taken in turn from any place of RuleUniverse
TokenLists ==
  {[i \in 1..n |-> RuleUniverse[((start + i - 2) % Len(RuleUniverse)) + 1]] :
     start \in 1..Len(RuleUniverse), n \in 0..MaxRules}

Document(m, d, c, t) == [malformed |-> m, dracula |-> d, colors |-> c, tokenColors |-> t]

Documents ==
  {Document(FALSE, Palette, c, t) : c \in ColorMaps, t \in TokenLists}
    \cup {Document(TRUE, Palette, <<>>, <<>>)}

ExactDoubles == [s |-> 1, l |-> 1, r |-> 1, g |-> 1, b |-> 1]

InitWith(docs, fps) ==
  /\ pc = "start"
  /\ yamlFile \in docs
  /\ heap = [a \in Addr |-> Free]
  /\ next = 1
  /\ base = 0
  /\ soft = 0
  /\ hc = 0
  /\ sanitized = NoTheme
  /\ fp \in fps
  /\ wstate = [f \in Files |-> "idle"]
  /\ files = [f \in Files |-> "previous"]
  /\ result = "pending"

Init == InitWith(Documents, {ExactDoubles})

Next == generate

Spec == Init /\ [][Next]_vars

(***************************************************************************)
(* build(): await generate(), then Promise.all of three writeFile calls.   *)
(***************************************************************************)
\* the await lets build() go on only when generate() has fulfilled; GenerateSettled
\* goes on after a rejection too
GenerateSettled == pc \in {"returned", "failed"}

GenerateFulfilled == pc = "returned"

\* Promise.race settles with the first write that settles
PromiseRace(w, r) ==
  IF r # "pending" THEN r
  ELSE IF \E f \in Files : w[f] = "failed" THEN "rejected"
  ELSE IF \E f \in Files : w[f] = "done" THEN "resolved"
  ELSE "pending"

\* Promise.all: rejected with the first rejection, fulfilled when all are
PromiseAll(w, r) ==
  IF r # "pending" THEN r
  ELSE IF \E f \in Files : w[f] = "failed" THEN "rejected"
  ELSE IF \A f \in Files : w[f] = "done" THEN "resolved"
  ELSE "pending"

\* the array literal calls fs.promises.writeFile for all three files at once
Started == [f \in Files |-> "opening"]

\* generate() rejected: build() rejects, nothing after the await runs
Abort ==
  /\ pc = "failed"
  /\ pc' = "aborted"
  /\ result' = "rejected"
  /\ UNCHANGED <<yamlFile, heap, next, base, soft, hc, sanitized, fp, wstate, files>>

ForkWrites ==
  /\ GenerateFulfilled
  /\ pc' = "forked"
  /\ wstate' = Started
  /\ UNCHANGED <<yamlFile, heap, next, base, soft, hc, sanitized, fp, files, result>>

\* writeFile opens the path with flag 'w': the file is created or cut to nothing
Open(f) ==
  /\ wstate[f] = "opening"
  /\ \E ok \in BOOLEAN :
       IF ok
       THEN /\ wstate' = [wstate EXCEPT ![f] = "writing"]
            /\ files' = [files EXCEPT ![f] = "empty"]
            /\ UNCHANGED result
       ELSE /\ wstate' = [wstate EXCEPT ![f] = "failed"]
            /\ result' = PromiseAll(wstate', result)
            /\ UNCHANGED files
  /\ UNCHANGED <<pc, yamlFile, heap, next, base, soft, hc, sanitized, fp>>

\* then writes the JSON text until none is left; a write may fail
Write(f) ==
  /\ wstate[f] = "writing"
  /\ \E outcome \in {"more", "all", "error"} :
       IF outcome = "more"
       THEN /\ files' = [files EXCEPT ![f] = "partial"]
            /\ UNCHANGED <<wstate, result>>
       ELSE IF outcome = "all"
       THEN /\ files' = [files EXCEPT ![f] = "complete"]
            /\ wstate' = [wstate EXCEPT ![f] = "done"]
            /\ result' = PromiseAll(wstate', result)
       ELSE /\ wstate' = [wstate EXCEPT ![f] = "failed"]
            /\ result' = PromiseAll(wstate', result)
            /\ UNCHANGED files
  /\ UNCHANGED <<pc, yamlFile, heap, next, base, soft, hc, sanitized, fp>>

build == generate \/ Abort \/ ForkWrites \/ \E f \in Files : Open(f) \/ Write(f)

BuildDocuments ==
  {Document(FALSE, Palette, c, <<>>) :
     c \in [{"editor.background", "terminal.ansiRed"} -> {YNull, YStr("#FF5555")}]}
    \cup {Document(TRUE, Palette, <<>>, <<>>)}

InitBuild == InitWith(BuildDocuments, {ExactDoubles})

SpecBuild == InitBuild /\ [][build]_vars

(***************************************************************************)
(* Inputs for the colour arithmetic: one bright colour, used by a colour   *)
(* key and by a token rule, drawn from a grid and from the Dracula palette. *)
(***************************************************************************)
pad2Upper(n) == Char(HexUpper, (n \div 16) + 1) \o Char(HexUpper, (n % 16) + 1)
UpperHex(rgb) == "#" \o pad2Upper(rgb[1]) \o pad2Upper(rgb[2]) \o pad2Upper(rgb[3])

GridChannels == {0, 2, 85, 121, 185, 197, 255}

BrightInputs ==
  {UpperHex(<<r, g, b>>) : r \in GridChannels, g \in GridChannels, b \in GridChannels}
    \cup {"#21222C", "#FF5555", "#50FA7B", "#F1FA8C", "#BD93F9", "#FF79C6", "#8BE9FD",
          "#F8F8F2", "#6272A4", "#FF6E6E", "#69FF94", "#FFFFA5", "#D6ACFF", "#FF92DF",
          "#A4FFFF", "#E9F284", "#8BE9FE", "#ff5555", "#bd93f9"}

SoftDocument(c) ==
  Document(FALSE,
           [base |-> <<"#282A36">>, ansi |-> <<c>>, brightOther |-> <<>>, other |-> <<>>],
           ("terminal.ansiRed" :> YStr(c)) @@ ("editor.background" :> YStr("#282A36")),
           <<[name |-> <<"Keyword">>, scope |-> <<"keyword">>,
              settings |-> ("foreground" :> c)]>>)

AnyDoubles == [s : {0, 1}, l : {0, 1}, r : {0, 1}, g : {0, 1}, b : {0, 1}]

InitSoft == InitWith({SoftDocument(c) : c \in BrightInputs}, AnyDoubles)

SpecSoft == InitSoft /\ [][Next]_vars

(***************************************************************************)
(* Reading the state, for the properties below.                            *)
(***************************************************************************)
RawColors == [k \in DOMAIN yamlFile.colors |-> construct(yamlFile.colors[k])]
\* the raw entries whose value is neither null nor empty
RawKept == {k \in DOMAIN RawColors : RawColors[k] # Null /\ RawColors[k] # Str("")}
BaseColors == Colors(heap, base)
SoftColors == Colors(heap, soft)
HcColors == Colors(heap, hc)

\* v is, as a string, one of the ansi or brightOther colours of the base theme
BrightMember(v) ==
  \E g \in {"ansi", "brightOther"} :
    \E j \in 1..Len(Group(heap, base, g)) : Group(heap, base, g)[j] = v

PaletteOf(theme) == Deep(heap, heap[theme].p["dracula"])
RuleOf(theme, j) == Deep(heap, Rules(heap, theme)[j])
Without(p, key) == [k \in DOMAIN p \ {key} |-> p[k]]

\* the key matches one of the exemption substrings
MatchesExemption(k) ==
  \/ stringIncludes(k, "selection") \/ stringIncludes(k, "Selection")
  \/ stringIncludes(k, "button") \/ stringIncludes(k, "Badge")
  \/ stringIncludes(k, "diffEditor") \/ stringIncludes(k, "merge")
  \/ stringIncludes(k, "highlight") \/ stringIncludes(k, "OverviewRuler")

EndsInBackground(k) == endsWith(k, "background") \/ endsWith(k, "Background")
InBgKeys(k) == \E i \in 1..Len(bgKeys) : bgKeys[i] = k

(***************************************************************************)
(* C1: every key of the override table is in the high-contrast colours     *)
(* with exactly the table's value, whether or not the base has the key and *)
(* whatever the sweep did to it.                                           *)
(***************************************************************************)
OverridesAreAuthoritative ==
  hc # 0 =>
    \A i \in 1..Len(overrides) :
      /\ overrides[i][1] \in DOMAIN HcColors
      /\ HcColors[overrides[i][1]] = Str(overrides[i][2])

\* a base key the sweep forces to black and the table sets to another value,
\* beside table keys the base does not have
OverrideBeatsSweep ==
  /\ hc # 0
  /\ \E i \in 1..Len(overrides) :
       /\ overrides[i][1] \in DOMAIN BaseColors
       /\ InBgKeys(overrides[i][1])
       /\ ~MatchesExemption(overrides[i][1])
       /\ overrides[i][2] # "#000000"
       /\ BaseColors[overrides[i][1]] # Str(overrides[i][2])
  /\ \E i \in 1..Len(overrides) : overrides[i][1] \notin DOMAIN BaseColors

(***************************************************************************)
(* C2: a base key that ends in background/Background, matches no exemption *)
(* substring and is not a key of the override table is #000000 in the      *)
(* high-contrast colours.                                                  *)
(***************************************************************************)
SweptBackgroundsAreBlack ==
  hc # 0 =>
    \A k \in DOMAIN BaseColors :
      (EndsInBackground(k) /\ ~MatchesExemption(k) /\ k \notin overrideKeys)
        => (k \in DOMAIN HcColors /\ HcColors[k] = Str("#000000"))

\* such a key that is in no fixed list and was not black in the base
SuffixOnlyKeySwept ==
  /\ hc # 0
  /\ \E k \in DOMAIN BaseColors :
       /\ EndsInBackground(k) /\ ~MatchesExemption(k) /\ k \notin overrideKeys
       /\ ~InBgKeys(k)
       /\ BaseColors[k] # Str("#000000")
       /\ HcColors[k] = Str("#000000")

Rgb(v) == stringInputToObject(v.s)
Lum2(rgb) == Max3(rgb) + Min3(rgb)
Chroma(rgb) == Max3(rgb) - Min3(rgb)
SatDenOf(rgb) == IF Lum2(rgb) > 255 THEN 510 - Lum2(rgb) ELSE Lum2(rgb)

\* the hue is HueNum / (6 HueDen) of a turn; a grey has hue 0
HueDen(rgb) == IF Chroma(rgb) = 0 THEN 1 ELSE Chroma(rgb)
HueNum(rgb) ==
  IF Chroma(rgb) = 0 THEN 0
  ELSE IF Max3(rgb) = rgb[1]
       THEN (rgb[2] - rgb[3]) + (IF rgb[2] < rgb[3] THEN 6 * Chroma(rgb) ELSE 0)
  ELSE IF Max3(rgb) = rgb[2] THEN (rgb[3] - rgb[1]) + 2 * Chroma(rgb)
  ELSE (rgb[1] - rgb[2]) + 4 * Chroma(rgb)

\* out has exactly the hue and lightness of in, and its saturation less 0.2
ExactlyDesaturated(in, out) ==
  /\ HueNum(in) * HueDen(out) = HueNum(out) * HueDen(in)
  /\ Lum2(in) = Lum2(out)
  /\ IF 5 * Chroma(in) <= SatDenOf(in)
     THEN Chroma(out) = 0
     ELSE 5 * Chroma(out) * SatDenOf(in) = (5 * Chroma(in) - SatDenOf(in)) * SatDenOf(out)

\* every channel of out is less than 1 away from the channel of the colour that has
\* exactly the hue and lightness of in, and its saturation less 0.2
WithinRounding(in, out) ==
  LET d == Chroma(in)
      C5 == Max2(0, 5 * d - SatDenOf(in))
  IN \A c \in 1..3 :
       IF d = 0 THEN out[c] = in[c]
       ELSE LET ideal == d * (5 * Lum2(in) - C5) + 2 * C5 * (in[c] - Min3(in))
                got == 10 * d * out[c]
            IN got - ideal < 10 * d /\ ideal - got < 10 * d

\* the bright values of the base theme, each with what the soft theme has in its place
BrightPairs ==
  {<<BaseColors[k], SoftColors[k]>> : k \in {x \in DOMAIN BaseColors : BrightMember(BaseColors[x])}}
    \cup {<<RuleOf(base, j).p["settings"].p["foreground"],
            RuleOf(soft, j).p["settings"].p["foreground"]>> :
            j \in {x \in 1..Len(Rules(heap, base)) :
                     /\ "foreground" \in DOMAIN RuleOf(base, x).p["settings"].p
                     /\ BrightMember(RuleOf(base, x).p["settings"].p["foreground"])}}

(***************************************************************************)
(* C4, as made: a bright colour value (colour key or token foreground)     *)
(* comes out of transformSoft with the same hue and lightness and a        *)
(* saturation exactly 20 points lower, clamped at 0.                       *)
(***************************************************************************)
SoftIsExactInHsl ==
  soft # 0 => \A pr \in BrightPairs : ExactlyDesaturated(Rgb(pr[1]), Rgb(pr[2]))

(***************************************************************************)
(* C4, as amended: the soft value is the lower-case 6-digit hex string of  *)
(* the colour with the hue and lightness of the input and its saturation   *)
(* 20 points lower (clamped at 0), rounded channel by channel: each        *)
(* channel is less than 1 (of 255) away from that colour's channel.        *)
(***************************************************************************)
SoftIsDesaturatedWithinRounding ==
  soft # 0 =>
    \A pr \in BrightPairs :
      /\ pr[2].t = "str"
      /\ IsHex6(pr[2].s)
      /\ pr[2].s = toHexString(Rgb(pr[2]))
      /\ WithinRounding(Rgb(pr[1]), Rgb(pr[2]))

\* a colour key and a token foreground were desaturated, and rounding moved the
\* result off the exact hue or saturation
RoundedDesaturation ==
  /\ soft # 0
  /\ \E k \in DOMAIN BaseColors :
       /\ BrightMember(BaseColors[k])
       /\ SoftColors[k] # BaseColors[k]
       /\ ~ExactlyDesaturated(Rgb(BaseColors[k]), Rgb(SoftColors[k]))
  /\ \E j \in 1..Len(Rules(heap, base)) :
       /\ BrightMember(RuleOf(base, j).p["settings"].p["foreground"])
       /\ RuleOf(soft, j).p["settings"].p["foreground"]
            # RuleOf(base, j).p["settings"].p["foreground"]

(***************************************************************************)
(* C5: the transforms do not change the theme they are given, and what     *)
(* they return shares no cell with it: once soft and hc exist the base     *)
(* theme is, by value, what it was right after sanitation, and no cell is  *)
(* reachable from two of base, soft and hc.                                *)
(***************************************************************************)
ThemesShareNothing ==
  /\ soft # 0 =>
       /\ Deep(heap, Ref(base)) = sanitized
       /\ Reach(heap, base) \cap Reach(heap, soft) = {}
  /\ hc # 0 =>
       /\ Reach(heap, base) \cap Reach(heap, hc) = {}
       /\ Reach(heap, soft) \cap Reach(heap, hc) = {}

\* both transforms have run and each changed a colour and, for soft, a token rule
BothVariantsDiffer ==
  /\ hc # 0
  /\ \E k \in DOMAIN BaseColors : SoftColors[k] # BaseColors[k]
  /\ \E k \in DOMAIN BaseColors : HcColors[k] # BaseColors[k]
  /\ \E j \in 1..Len(Rules(heap, base)) : RuleOf(soft, j) # RuleOf(base, j)

(***************************************************************************)
(* C6: after sanitation the base colours are exactly the raw loaded        *)
(* entries whose value is not null or empty, each with its raw value; the  *)
(* sanitation comes before both transforms, so neither the soft nor the    *)
(* high-contrast colours hold a dropped key (unless the override table     *)
(* brings it).                                                             *)
(***************************************************************************)
SanitizedBeforeTransforms ==
  /\ sanitized # NoTheme =>
       /\ DOMAIN BaseColors = RawKept
       /\ \A k \in RawKept : BaseColors[k] = RawColors[k]
  /\ soft # 0 => (sanitized # NoTheme /\ DOMAIN SoftColors = RawKept)
  /\ hc # 0 => (sanitized # NoTheme /\ DOMAIN HcColors = RawKept \cup overrideKeys)

\* a null entry and an empty one were dropped and the variants derived
FalsyEntriesDropped ==
  /\ hc # 0
  /\ \E k \in DOMAIN RawColors : RawColors[k] = Null /\ k \notin overrideKeys
  /\ \E k \in DOMAIN RawColors : RawColors[k] = Str("") /\ k \notin overrideKeys

(***************************************************************************)
(* C7: when reading or parsing the YAML fails, no write of any of the      *)
(* three files is ever started: as long as no theme was loaded every       *)
(* writeFile call is unstarted and every path holds what it held.          *)
(***************************************************************************)
NoWriteWithoutTheme ==
  base = 0 => \A f \in Files : wstate[f] = "idle" /\ files[f] = "previous"

\* the document was malformed and build() has rejected
ParseErrorAborted == yamlFile.malformed /\ pc = "aborted" /\ result = "rejected"

(***************************************************************************)
(* C8: build() fulfils only when all three writes are done; a failed write *)
(* makes it reject; the other writes were started all the same and a       *)
(* write in flight can still go on.                                        *)
(***************************************************************************)
ForkJoin ==
  /\ result = "resolved" => \A f \in Files : wstate[f] = "done" /\ files[f] = "complete"
  /\ (\E f \in Files : wstate[f] = "failed") =>
       /\ result = "rejected"
       /\ \A g \in Files : wstate[g] # "idle"
  /\ \A g \in Files : wstate[g] = "opening" => ENABLED Open(g)
  /\ \A g \in Files : wstate[g] = "writing" => ENABLED Write(g)

\* one write failed at once, the other two were written in full
OneFailedOthersWritten ==
  /\ result = "rejected"
  /\ wstate["dracula.json"] = "failed" /\ files["dracula.json"] = "previous"
  /\ \A g \in Files \ {"dracula.json"} : wstate[g] = "done" /\ files[g] = "complete"

(***************************************************************************)
(* C9: a run that ends in failure leaves every output path with its        *)
(* previous content or a complete JSON document, never a cut one.          *)
(***************************************************************************)
NoCutFileOnFailure ==
  (result = "rejected" /\ \A f \in Files : wstate[f] \in {"idle", "done", "failed"})
    => \A f \in Files : files[f] \in {"previous", "complete"}

(***************************************************************************)
(* C10: transformHighContrast keeps every base key, keeps the base value   *)
(* of every key that is not in the override table and is exempted or not   *)
(* background-like (in bgKeys or ending in background/Background), and     *)
(* keeps the token rules and palette groups.                               *)
(***************************************************************************)
HcLeavesTheRestAlone ==
  hc # 0 =>
    /\ DOMAIN BaseColors \subseteq DOMAIN HcColors
    /\ \A k \in DOMAIN BaseColors :
         (k \notin overrideKeys /\ (MatchesExemption(k) \/ ~(InBgKeys(k) \/ EndsInBackground(k))))
           => HcColors[k] = BaseColors[k]
    /\ Deep(heap, heap[hc].p["tokenColors"]) = Deep(heap, heap[base].p["tokenColors"])
    /\ PaletteOf(hc) = PaletteOf(base)

\* an exempted background of the fixed list and a key of no background role keep
\* their colour
ExemptedAndPlainKeysKept ==
  /\ hc # 0
  /\ \E k \in DOMAIN BaseColors :
       /\ k \notin overrideKeys /\ MatchesExemption(k) /\ InBgKeys(k)
       /\ HcColors[k] = BaseColors[k] /\ BaseColors[k] # Str("#000000")
  /\ \E k \in DOMAIN BaseColors :
       /\ k \notin overrideKeys /\ ~InBgKeys(k) /\ ~EndsInBackground(k)
       /\ HcColors[k] = BaseColors[k]
====
